---- MODULE Spec2Model ----
(***************************************************************************)
(* AI expense tracker: the /api/ask dispatch router, the /api/expenses     *)
(* endpoints and the expense service over the expense table.               *)
(*                                                                         *)
(* Text is a sequence of one-character strings.  A JSON / Python value is  *)
(* a tagged record: Null (None or a missing key), Str(s), Num(n).  A       *)
(* datetime is an integer number of clock ticks since Epoch 00:00 IST.     *)
(***************************************************************************)
EXTENDS Integers, Sequences, FiniteSets, TLC

(* ------------------------------ bounds -------------------------------- *)

\* Clock readings run over 0..MaxClock.
MaxClock == 3
\* Clock ticks in one calendar day.
TicksPerDay == 2
\* Requests accepted in one behaviour.
MaxRequests == 3

(* ------------------------------ values -------------------------------- *)

Null == [t |-> "null"]
Str(s) == [t |-> "str", s |-> s]
Num(n) == [t |-> "num", n |-> n]

\* Python truthiness of a value: None, "" and 0 are falsy.
Truthy(x) ==
    CASE x.t = "null" -> FALSE
      [] x.t = "str" -> x.s # <<>>
      [] x.t = "num" -> x.n # 0
      [] OTHER -> TRUE

\* dict.get(key) and dict.get(key, default) on a mapping with string keys.
Get(d, k) == IF k \in DOMAIN d THEN d[k] ELSE Null
GetOr(d, k, default) == IF k \in DOMAIN d THEN d[k] ELSE default

(* ------------------------------- text --------------------------------- *)

LowerCase == <<"a","b","c","d","e","f","g","h","i","j","k","l","m",
               "n","o","p","q","r","s","t","u","v","w","x","y","z">>
UpperCase == <<"A","B","C","D","E","F","G","H","I","J","K","L","M",
               "N","O","P","Q","R","S","T","U","V","W","X","Y","Z">>
Whitespace == {" ", "\t", "\n"}

LowerMap == [c \in {UpperCase[i] : i \in 1..Len(UpperCase)} |->
                LowerCase[CHOOSE i \in 1..Len(UpperCase) : UpperCase[i] = c]]
UpperMap == [c \in {LowerCase[i] : i \in 1..Len(LowerCase)} |->
                UpperCase[CHOOSE i \in 1..Len(LowerCase) : LowerCase[i] = c]]
IsUpper(c) == c \in DOMAIN LowerMap
IsLower(c) == c \in DOMAIN UpperMap
IsCased(c) == IsUpper(c) \/ IsLower(c)
LowerChar(c) == IF IsUpper(c) THEN LowerMap[c] ELSE c
UpperChar(c) == IF IsLower(c) THEN UpperMap[c] ELSE c

\* str.lower()
lower(s) == [i \in 1..Len(s) |-> LowerChar(s[i])]

\* str.strip(): leading and trailing whitespace removed.
strip(s) ==
    LET keep == {i \in 1..Len(s) : s[i] \notin Whitespace}
    IN  IF keep = {} THEN <<>>
        ELSE LET lo == CHOOSE i \in keep : \A j \in keep : i <= j
                 hi == CHOOSE i \in keep : \A j \in keep : j <= i
             IN  SubSeq(s, lo, hi)

\* str.title(): a cased character is upper-cased when it starts a run of
\* cased characters and lower-cased inside one.
title(s) ==
    [i \in 1..Len(s) |->
        IF i > 1 /\ IsCased(s[i - 1]) THEN LowerChar(s[i]) ELSE UpperChar(s[i])]

\* str.startswith(prefix)
startswith(s, p) == Len(s) >= Len(p) /\ SubSeq(s, 1, Len(p)) = p

(* ----------------------------- calendar ------------------------------- *)

\* The instant of clock reading 0: Sunday 2025-08-31 00:00 IST; the next
\* day starts a new week and a new month.
Epoch == [y |-> 2025, m |-> 8, d |-> 31]

IsLeap(y) == (y % 4 = 0 /\ y % 100 # 0) \/ y % 400 = 0
DaysInMonth(y, m) ==
    IF m = 2 THEN (IF IsLeap(y) THEN 29 ELSE 28)
    ELSE IF m \in {4, 6, 9, 11} THEN 30 ELSE 31

RECURSIVE DaysBeforeMonth(_, _)
DaysBeforeMonth(y, m) ==
    IF m <= 1 THEN 0 ELSE DaysBeforeMonth(y, m - 1) + DaysInMonth(y, m - 1)

\* date.toordinal(): days since 0001-01-01, that day being 1.
Ordinal(dt) ==
    LET y1 == dt.y - 1
    IN  365 * y1 + (y1 \div 4) - (y1 \div 100) + (y1 \div 400)
        + DaysBeforeMonth(dt.y, dt.m) + dt.d

NextDay(dt) ==
    IF dt.d < DaysInMonth(dt.y, dt.m) THEN [dt EXCEPT !.d = dt.d + 1]
    ELSE IF dt.m < 12 THEN [y |-> dt.y, m |-> dt.m + 1, d |-> 1]
    ELSE [y |-> dt.y + 1, m |-> 1, d |-> 1]

RECURSIVE AddDays(_, _)
AddDays(dt, n) == IF n <= 0 THEN dt ELSE AddDays(NextDay(dt), n - 1)

\* The calendar date (IST wall clock) of a datetime at or after Epoch.
DateOf(ts) == AddDays(Epoch, ts \div TicksPerDay)

\* The datetime at 00:00 of a calendar date.
Midnight(dt) == (Ordinal(dt) - Ordinal(Epoch)) * TicksPerDay

\* timedelta(days=1)
OneDay == TicksPerDay

Digits == <<"0","1","2","3","4","5","6","7","8","9">>
IsDigit(c) == \E i \in 1..Len(Digits) : Digits[i] = c
DigitVal(c) == (CHOOSE i \in 1..Len(Digits) : Digits[i] = c) - 1

RECURSIVE Number(_)
Number(s) ==
    IF s = <<>> THEN 0
    ELSE 10 * Number(SubSeq(s, 1, Len(s) - 1)) + DigitVal(s[Len(s)])

\* datetime.fromisoformat on a calendar date "YYYY-MM-DD": IsoValid is
\* FALSE where it raises ValueError, IsoDate is the date it parses.
IsoShape(s) ==
    /\ Len(s) = 10
    /\ s[5] = "-" /\ s[8] = "-"
    /\ \A i \in {1, 2, 3, 4, 6, 7, 9, 10} : IsDigit(s[i])
IsoDate(s) ==
    [y |-> Number(SubSeq(s, 1, 4)), m |-> Number(SubSeq(s, 6, 7)),
     d |-> Number(SubSeq(s, 9, 10))]
IsoValid(s) ==
    /\ IsoShape(s)
    /\ LET dt == IsoDate(s)
       IN  /\ dt.y >= 1
           /\ dt.m \in 1..12
           /\ dt.d \in 1..DaysInMonth(dt.y, dt.m)
fromisoformat(s) == Midnight(IsoDate(s))

\* SQLite strftime(fmt, timestamp) for the three formats of the breakdown:
\* "%Y-%m-%d", "%Y-%W" (weeks start on Monday, week 00 before the first
\* Monday of the year) and "%Y-%m".  A key is the tuple of its zero-padded
\* numeric fields, so the text order of keys is the order of the tuples.
YearDay(dt) == DaysBeforeMonth(dt.y, dt.m) + dt.d - 1
WeekDay(dt) == (Ordinal(dt) + 6) % 7
WeekOfYear(dt) == (YearDay(dt) + 7 - WeekDay(dt)) \div 7
strftime(granularity, ts) ==
    LET dt == DateOf(ts)
    IN  CASE granularity = "daily" -> <<dt.y, dt.m, dt.d>>
          [] granularity = "weekly" -> <<dt.y, WeekOfYear(dt)>>
          [] OTHER -> <<dt.y, dt.m>>

(* --------------------------- expense service -------------------------- *)

\* A row of the expense table (app/models.py).  participants is the list
\* stored in the JSON column, <<>> for NULL.
Row(id, ts, amount, category, description, raw_nl) ==
    [id |-> id, timestamp |-> ts, amount |-> amount, category |-> category,
     description |-> description, raw_nl |-> raw_nl, participants |-> <<>>]

\* float(x): FloatOk is FALSE where it raises (None, non-numeric text).
FloatOk(x) ==
    \/ x.t = "num"
    \/ x.t = "str" /\ x.s # <<>> /\ \A i \in 1..Len(x.s) : IsDigit(x.s[i])
Float(x) == IF x.t = "num" THEN x.n ELSE Number(x.s)

\* Variant of add_expense_ts: a valid date argument is honoured.
add_expense_ts_from_date(parsed, clock) ==
    LET date == Get(parsed, "date")
    IN  IF Truthy(date) /\ IsoValid(date.s) THEN fromisoformat(date.s) ELSE clock

\* add_expense, the timestamp of the new record.
add_expense_ts(parsed, clock) == clock

\* add_expense, the category of the new record.
add_expense_category(parsed) ==
    LET raw_cat == Get(parsed, "category")
    IN  IF Truthy(raw_cat) THEN Str(title(strip(raw_cat.s))) ELSE Null

\* add_expense up to the Expense(...) constructor: AddRaises where float()
\* raises, NewExpense the unsaved record (no id yet).
AddRaises(parsed) == ~FloatOk(GetOr(parsed, "amount", Num(0)))
\* Variant of NewExpense: a participants argument is written to the record.
NewExpenseWithParticipants(parsed, raw_nl, clock) ==
    [Row(0, add_expense_ts(parsed, clock), Float(GetOr(parsed, "amount", Num(0))),
         add_expense_category(parsed), Get(parsed, "description"), raw_nl)
        EXCEPT !.participants =
            IF "participants" \in DOMAIN parsed THEN parsed.participants ELSE <<>>]
NewExpense(parsed, raw_nl, clock) ==
    Row(0, add_expense_ts(parsed, clock), Float(GetOr(parsed, "amount", Num(0))),
        add_expense_category(parsed), Get(parsed, "description"), raw_nl)

\* The insert of add_expense: session.add, commit, refresh.  The integer
\* primary key is one more than the largest id of the table.
RECURSIVE MaxId(_)
MaxId(rows) ==
    IF rows = <<>> THEN 0
    ELSE LET m == MaxId(Tail(rows)) IN IF Head(rows).id > m THEN Head(rows).id ELSE m
\* Variant of Insert: the largest id is used again.
InsertSameId(rows, expense) ==
    Append(rows, [expense EXCEPT !.id = IF rows = <<>> THEN 1 ELSE MaxId(rows)])
Insert(rows, expense) == Append(rows, [expense EXCEPT !.id = MaxId(rows) + 1])

Range(f) == {f[i] : i \in DOMAIN f}

\* The rows of a statement without ORDER BY: the selected rows in any order.
RECURSIVE Orderings(_)
Orderings(S) ==
    IF S = {} THEN {<<>>}
    ELSE UNION {{<<x>> \o q : q \in Orderings(S \ {x})} : x \in S}
\* The rows of a statement with ORDER BY timestamp: every order ascending in
\* timestamp; rows with equal timestamps come in any order.
OrderedByTimestamp(S) ==
    {q \in Orderings(S) :
        \A i, j \in DOMAIN q : i < j => q[i].timestamp <= q[j].timestamp}

\* The WHERE clauses get_expenses and summarize_expenses build from their
\* date arguments.
StartFilter(start_date, row) ==
    (Truthy(start_date) /\ IsoValid(start_date.s))
        => row.timestamp >= fromisoformat(start_date.s)
EndFilter(end_date, row) ==
    (Truthy(end_date) /\ IsoValid(end_date.s))
        => row.timestamp < fromisoformat(end_date.s) + OneDay
\* Variant of CategoryFilter: the filter value is normalised like a stored
\* category.
CategoryFilterNormalised(category, row) ==
    Truthy(category) => row.category = Str(title(strip(category.s)))
CategoryFilter(category, row) ==
    Truthy(category) => row.category = category

\* get_expenses: the possible result lists.
get_expenses(rows, start_date, end_date, category) ==
    OrderedByTimestamp({row \in Range(rows) :
                            /\ StartFilter(start_date, row)
                            /\ EndFilter(end_date, row)
                            /\ CategoryFilter(category, row)})

\* Variant of SumAmount: SUM(DISTINCT amount).
SumAmountDistinct(S) ==
    LET A == {row.amount : row \in S}
        s[n \in 0..Cardinality(A)] ==
            IF n = 0 THEN [sum |-> 0, left |-> A]
            ELSE LET a == CHOOSE x \in s[n - 1].left : TRUE
                 IN  [sum |-> s[n - 1].sum + a, left |-> s[n - 1].left \ {a}]
    IN  s[Cardinality(A)].sum

\* func.coalesce(func.sum(Expense.amount), 0) over the selected rows.
RECURSIVE SumAmount(_)
SumAmount(S) ==
    IF S = {} THEN 0
    ELSE LET row == CHOOSE x \in S : TRUE IN row.amount + SumAmount(S \ {row})

KeyLess(a, b) ==
    \E i \in 1..Len(a) :
        /\ a[i] < b[i]
        /\ \A j \in 1..(i - 1) : a[j] = b[j]

RECURSIVE SortKeys(_)
SortKeys(K) ==
    IF K = {} THEN <<>>
    ELSE LET k == CHOOSE x \in K : \A z \in K \ {x} : KeyLess(x, z)
         IN  <<k>> \o SortKeys(K \ {k})

Daily == <<"d","a","i","l","y">>
Weekly == <<"w","e","e","k","l","y">>
Monthly == <<"m","o","n","t","h","l","y">>
GranularityName(g) ==
    CASE g = Str(Daily) -> "daily"
      [] g = Str(Weekly) -> "weekly"
      [] g = Str(Monthly) -> "monthly"
      [] OTHER -> "none"

\* Variant of summarize_expenses: the breakdown statement without the date
\* filters.
summarize_expenses_breakdown_unfiltered(rows, start_date, end_date, granularity) ==
    LET S == {row \in Range(rows) :
                StartFilter(start_date, row) /\ EndFilter(end_date, row)}
        g == GranularityName(granularity)
        keys == SortKeys({strftime(g, row.timestamp) : row \in Range(rows)})
    IN  [total |-> SumAmount(S),
         breakdown |->
            IF g = "none" THEN <<>>
            ELSE [i \in 1..Len(keys) |->
                    [period |-> keys[i],
                     total |-> SumAmount({row \in Range(rows) :
                                  strftime(g, row.timestamp) = keys[i]})]]]

\* summarize_expenses: the total over the date range and the breakdown, one
\* entry per period in ascending order of period.
summarize_expenses(rows, start_date, end_date, granularity) ==
    LET S == {row \in Range(rows) :
                StartFilter(start_date, row) /\ EndFilter(end_date, row)}
        g == GranularityName(granularity)
        keys == SortKeys({strftime(g, row.timestamp) : row \in S})
    IN  [total |-> SumAmount(S),
         breakdown |->
            IF g = "none" THEN <<>>
            ELSE [i \in 1..Len(keys) |->
                    [period |-> keys[i],
                     total |-> SumAmount({row \in S :
                                  strftime(g, row.timestamp) = keys[i]})]]]

\* datetime.isoformat() and its parse by datetime.fromisoformat.
isoformat(ts) == [date |-> DateOf(ts), tick |-> ts % TicksPerDay]
fromisotext(x) == Midnight(x.date) + x.tick

\* The mapping get_last_expense and get_most_expensive_expense build.
AsDict(row) == [row EXCEPT !.timestamp = isoformat(row.timestamp)]

\* get_last_expense: the possible results, <<>> being the empty mapping {}.
get_last_expense(rows) ==
    IF rows = <<>> THEN {<<>>}
    ELSE {AsDict(row) : row \in {x \in Range(rows) :
                \A z \in Range(rows) : z.timestamp <= x.timestamp}}

\* Variant of get_most_expensive_expense: the record with the highest id.
get_most_expensive_expense_by_id(rows) ==
    IF rows = <<>> THEN {<<>>}
    ELSE {AsDict(row) : row \in {x \in Range(rows) : \A z \in Range(rows) : z.id <= x.id}}

\* get_most_expensive_expense: the possible results.
get_most_expensive_expense(rows) ==
    IF rows = <<>> THEN {<<>>}
    ELSE {AsDict(row) : row \in {x \in Range(rows) :
                \A z \in Range(rows) : z.amount <= x.amount}}

\* split_expense: SplitFound is FALSE where it raises ValueError.  Shares
\* are exact rationals, kept as numerator over denominator.
SplitFound(rows, expense_id) ==
    expense_id.t = "num" /\ \E row \in Range(rows) : row.id = expense_id.n
\* Variant of split_expense: the amount is not divided.
split_expense_undivided(rows, expense_id, participant) ==
    LET exp == CHOOSE row \in Range(rows) : row.id = expense_id.n
    IN  [expense_id |-> expense_id.n,
         participant |-> IF Truthy(participant) THEN participant ELSE Str(<<"m","e">>),
         share |-> [num |-> exp.amount, den |-> 1]]
split_expense(rows, expense_id, participant) ==
    LET exp == CHOOSE row \in Range(rows) : row.id = expense_id.n
        parts == IF exp.participants = <<>> THEN <<"me">> ELSE exp.participants
    IN  [expense_id |-> expense_id.n,
         participant |-> IF Truthy(participant) THEN participant ELSE Str(<<"m","e">>),
         share |-> [num |-> exp.amount, den |-> Len(parts)]]

(* ------------------------------- router ------------------------------- *)

VARIABLES
    store,      \* the expense table, rows in insertion order
    now,        \* the wall clock
    reqs,       \* the request each worker is handling
    nreq,       \* requests accepted so far
    done        \* the request answered last, with its response

vars == <<store, now, reqs, nreq, done>>

\* The worker threads: requests in flight at once.
Worker == {"w1", "w2"}

\* The names of FUNCTION_DEFINITIONS (app/services/ai_service.py).
Registry ==
    {"parse_expense", "query_expenses", "summarize_expenses", "get_last_expense",
     "split_expense", "get_most_expensive_expense", "run_sql"}

\* An assistant message: its function_call is Null or names an operation
\* and carries an arguments payload, which is Null, a JSON object (given by
\* the mapping it decodes to) or text that is not JSON.
Call(name, arguments) == [t |-> "call", name |-> name, arguments |-> arguments]
Json(obj) == [t |-> "json", obj |-> obj]
NotJson == [t |-> "text"]
Message(function_call, content) == [function_call |-> function_call, content |-> content]

\* json.loads(arguments): JsonOk is FALSE where it raises.
JsonOk(arguments) == arguments.t = "json"
json_loads(arguments) == arguments.obj

NoExpense == [t |-> "none"]
NoResponse == [status |-> 0]

Idle ==
    [pc |-> "Idle", route |-> "", text |-> "", query |-> <<>>, messages |-> <<>>,
     expense |-> NoExpense, tag |-> "", added |-> 0, executed |-> <<>>,
     response |-> NoResponse]

\* format_timestamp (app/main.py): the datetime rendered as IST wall-clock
\* text "%Y-%m-%d %H:%M:%S %Z".
format_timestamp(ts) == [date |-> DateOf(ts), tick |-> ts % TicksPerDay, zone |-> "IST"]

\* expense.dict() with the timestamp replaced by its rendering.
ExpenseData(row) == [row EXCEPT !.timestamp = format_timestamp(row.timestamp)]

\* Variant of Reformat: the mapping is returned as the service built it.
ReformatSkipped(d) == d

\* The re-rendering of the "timestamp" of a mapping built by the service:
\* parsed and formatted, left alone where the parse raises (no timestamp).
Reformat(d) ==
    IF "timestamp" \in DOMAIN d
    THEN [d EXCEPT !.timestamp = format_timestamp(fromisotext(d.timestamp))]
    ELSE d

Ok(body) == [status |-> 200, body |-> body]
\* HTTPException(status_code=400, detail=...)
ClientError(detail) == [status |-> 400, detail |-> detail]
\* An exception that leaves the handler: the framework answers 500.
Uncaught(exception) == [status |-> 500, exception |-> exception]

\* The handler returns (Responded) or raises (Errored) after the given
\* outcomes of its calls of call_openai: the response goes out and the
\* worker is free again.
Finish(r, pc, messages, resp) ==
    /\ done' = [reqs[r] EXCEPT !.pc = pc, !.messages = messages, !.response = resp]
    /\ reqs' = [reqs EXCEPT ![r] = Idle]
Respond(r, messages, resp) == Finish(r, "Responded", messages, resp)
\* The request of worker r ends after session.execute(text(sql)).
Execute(r, sql, pc, messages, resp) ==
    /\ done' = [reqs[r] EXCEPT !.pc = pc, !.messages = messages, !.response = resp,
                               !.executed = <<sql>>]
    /\ reqs' = [reqs EXCEPT ![r] = Idle]
Fail(r, messages, resp) == Finish(r, "Errored", messages, resp)

\* The clock advances.
Tick ==
    /\ now < MaxClock
    /\ now' = now + 1
    /\ UNCHANGED <<store, reqs, nreq, done>>

\* A request arrives: POST /api/ask or POST /api/expenses with a text, or
\* GET /api/expenses with its query parameters.  The worker then waits in
\* call_openai (ask, create) or goes on to the store (list).
Receive(r, route, text, query) ==
    /\ reqs[r].pc = "Idle"
    /\ nreq < MaxRequests
    /\ nreq' = nreq + 1
    /\ reqs' = [reqs EXCEPT ![r] =
                  [Idle EXCEPT !.pc = "Received", !.route = route, !.text = text,
                               !.query = query]]
    /\ UNCHANGED <<store, now, done>>

\* ask is waiting in call_openai.
\* Variant of InAsk: the classifier call is made under a lock shared by all
\* workers, so a request proceeds only when no other request is in its call.
InAskExclusive(r) ==
    /\ reqs[r].pc = "Received" /\ reqs[r].route = "ask"
    /\ \A o \in Worker \ {r} : reqs[o].pc # "Received"
InAsk(r) == reqs[r].pc = "Received" /\ reqs[r].route = "ask"

\* call_openai raised instead of returning a message.
Raised == [t |-> "raise"]

\* ask: call_openai raises (transport or provider failure); nothing in ask
\* catches it.
ClassifyFails(r) ==
    /\ InAsk(r)
    /\ Fail(r, <<Raised>>, Uncaught("call_openai"))
    /\ UNCHANGED <<store, now, nreq>>

Selected(message) == message.function_call.t = "call"
\* args = json.loads(func_call.get("arguments") or "{}")
ArgsOk(message) ==
    message.function_call.arguments.t = "null" \/ JsonOk(message.function_call.arguments)
Args(message) ==
    IF message.function_call.arguments.t = "null" THEN <<>>
    ELSE json_loads(message.function_call.arguments)
Routed(message, name) ==
    Selected(message) /\ ArgsOk(message) /\ message.function_call.name = name

\* Variant of AskFreeText: the missing function call is dereferenced.
AskFreeTextRaises(r, M) ==
    /\ InAsk(r)
    /\ \E message \in M :
        /\ ~Selected(message)
        /\ Fail(r, <<message>>, Uncaught("AttributeError"))
    /\ UNCHANGED <<store, now, nreq>>

\* ask: no function call, the content is returned.
AskFreeText(r, M) ==
    /\ InAsk(r)
    /\ \E message \in M :
        /\ ~Selected(message)
        /\ Respond(r, <<message>>, Ok([response |-> message.content]))
    /\ UNCHANGED <<store, now, nreq>>

\* ask: json.loads raises on the arguments; nothing in ask catches it.
AskBadArguments(r, M) ==
    /\ InAsk(r)
    /\ \E message \in M :
        /\ Selected(message) /\ ~ArgsOk(message)
        /\ Fail(r, <<message>>, Uncaught("json.loads"))
    /\ UNCHANGED <<store, now, nreq>>

\* Variant of AskFallback: a name that no branch matches raises.
AskFallbackRaises(r, M) ==
    /\ InAsk(r)
    /\ \E message \in M :
        /\ Selected(message) /\ ArgsOk(message)
        /\ message.function_call.name \notin Registry
        /\ Fail(r, <<message>>, Uncaught("KeyError"))
    /\ UNCHANGED <<store, now, nreq>>

\* ask: a name that no branch matches falls through to the last return.
AskFallback(r, M) ==
    /\ InAsk(r)
    /\ \E message \in M :
        /\ Selected(message) /\ ArgsOk(message)
        /\ message.function_call.name \notin Registry
        /\ Respond(r, <<message>>, Ok([response |-> message.content]))
    /\ UNCHANGED <<store, now, nreq>>

\* add_expense up to the insert: the clock is read and the record built.
\* onRaise is the response when float() raises.
BeginAdd(r, messages, parsed, tag, onRaise) ==
    IF AddRaises(parsed) THEN Fail(r, messages, onRaise)
    ELSE /\ reqs' = [reqs EXCEPT ![r].pc = "Adding", ![r].tag = tag,
                                 ![r].messages = messages,
                                 ![r].expense = NewExpense(parsed, reqs[r].text, now)]
         /\ UNCHANGED done

\* ask, parse_expense branch: add_expense(args, text) begins.
AskParseExpense(r, M) ==
    /\ InAsk(r)
    /\ \E message \in M :
        /\ Routed(message, "parse_expense")
        /\ BeginAdd(r, <<message>>, Args(message), "parse_expense", Uncaught("float"))
    /\ UNCHANGED <<store, now, nreq>>

\* add_expense commits the record; the handler returns it.
Commit(r) ==
    /\ reqs[r].pc = "Adding"
    /\ store' = Insert(store, reqs[r].expense)
    /\ LET exp == store'[Len(store')]
           data == ExpenseData(exp)
       IN  /\ done' = [reqs[r] EXCEPT
                    !.pc = "Responded",
                    !.added = reqs[r].added + 1,
                    !.response =
                        IF reqs[r].tag = "create" THEN Ok(data)
                        ELSE Ok([action |-> reqs[r].tag, expense |-> data])]
           /\ reqs' = [reqs EXCEPT ![r] = Idle]
    /\ UNCHANGED <<now, nreq>>

\* ask, query_expenses branch.
AskQueryExpenses(r, M) ==
    /\ InAsk(r)
    /\ \E message \in M :
        /\ Routed(message, "query_expenses")
        /\ LET args == Args(message)
           IN  \E items \in get_expenses(store, Get(args, "start_date"),
                                         Get(args, "end_date"), Get(args, "category")) :
                  Respond(r, <<message>>,
                          Ok([action |-> "query_expenses",
                              expenses |-> [i \in DOMAIN items |-> ExpenseData(items[i])]]))
    /\ UNCHANGED <<store, now, nreq>>

\* ask, summarize_expenses branch.
AskSummarizeExpenses(r, M) ==
    /\ InAsk(r)
    /\ \E message \in M :
        /\ Routed(message, "summarize_expenses")
        /\ LET args == Args(message)
           IN  Respond(r, <<message>>,
                       Ok([action |-> "summarize_expenses",
                           summary |-> summarize_expenses(store, Get(args, "start_date"),
                                           Get(args, "end_date"), Get(args, "granularity"))]))
    /\ UNCHANGED <<store, now, nreq>>

\* parse_expense (app/services/ai_service.py) on the outcome of its
\* call_openai: ParseOk is FALSE where it raises.
\* Variant of ParseOk: the arguments of whatever operation was selected are
\* taken as the parsed expense.
ParseOkAnyName(outcome) ==
    /\ outcome # Raised
    /\ outcome.function_call.t = "call"
    /\ JsonOk(outcome.function_call.arguments)
ParseOk(outcome) ==
    /\ outcome # Raised
    /\ outcome.function_call.t = "call"
    /\ outcome.function_call.name = "parse_expense"
    /\ JsonOk(outcome.function_call.arguments)
parse_expense(outcome) == json_loads(outcome.function_call.arguments)

\* Variant of Reinterpret: the lookup without the reinterpretation.
ReinterpretSkipped(r, message, outcome) ==
    \E last \in get_last_expense(store) :
        Respond(r, <<message, outcome>>,
                Ok([action |-> "get_last_expense", expense |-> Reformat(last)]))

\* ask, get_last_expense branch: the text is classified a second time and
\* added when that gives an expense; any exception falls back to the lookup.
Reinterpret(r, message, outcome) ==
    IF ParseOk(outcome) /\ ~AddRaises(parse_expense(outcome))
    THEN BeginAdd(r, <<message, outcome>>, parse_expense(outcome), "parse_expense",
                  NoResponse)
    ELSE \E last \in get_last_expense(store) :
            Respond(r, <<message, outcome>>,
                    Ok([action |-> "get_last_expense", expense |-> Reformat(last)]))
AskGetLastExpense(r, M) ==
    /\ InAsk(r)
    /\ \E message \in M :
        /\ Routed(message, "get_last_expense")
        /\ \/ \E outcome \in M : Reinterpret(r, message, outcome)
           \/ Reinterpret(r, message, Raised)
    /\ UNCHANGED <<store, now, nreq>>

\* ask, split_expense branch: the ValueError of a missing id is not caught.
AskSplitExpense(r, M) ==
    /\ InAsk(r)
    /\ \E message \in M :
        /\ Routed(message, "split_expense")
        /\ LET args == Args(message)
           IN  IF SplitFound(store, Get(args, "expense_id"))
               THEN Respond(r, <<message>>,
                            Ok([action |-> "split_expense",
                                split |-> split_expense(store, Get(args, "expense_id"),
                                                        Get(args, "participant"))]))
               ELSE Fail(r, <<message>>, Uncaught("ValueError"))
    /\ UNCHANGED <<store, now, nreq>>

\* ask, get_most_expensive_expense branch.
AskMostExpensive(r, M) ==
    /\ InAsk(r)
    /\ \E message \in M :
        /\ Routed(message, "get_most_expensive_expense")
        /\ \E exp \in get_most_expensive_expense(store) :
              Respond(r, <<message>>,
                      Ok([action |-> "get_most_expensive_expense",
                          expense |-> Reformat(exp)]))
    /\ UNCHANGED <<store, now, nreq>>

SelectAll == <<"S","E","L","E","C","T"," ","*"," ","F","R","O","M"," ","e","x","p","e","n","s","e">>
DeleteAll == <<"D","E","L","E","T","E"," ","F","R","O","M"," ","e","x","p","e","n","s","e">>
Select == <<"s","e","l","e","c","t">>

\* Variant of SqlAllowed: no gate.
SqlAllowedUnchecked(sql) == TRUE

\* The policy gate of the run_sql branch.
SqlAllowed(sql) == startswith(lower(sql), Select)

\* The store's answer to a statement: only SELECT * FROM expense (in any
\* letter case, blanks around it) is given a meaning; any other text that
\* passes the gate is one the store rejects.
SqlSelectsAll(sql) == lower(strip(sql)) = lower(SelectAll)

\* ask, run_sql branch.  The session is never committed, so no statement
\* changes the table.
RunSql(r, message) ==
    LET arg == GetOr(Args(message), "sql", Str(<<>>))
        sql == strip(arg.s)
    IN  IF arg.t # "str"
        THEN Fail(r, <<message>>, Uncaught("AttributeError"))
        ELSE IF ~SqlAllowed(sql)
        THEN Fail(r, <<message>>, ClientError("Only SELECT queries are allowed."))
        ELSE IF SqlSelectsAll(sql)
        THEN \E rows \in Orderings(Range(store)) :
                Execute(r, sql, "Responded", <<message>>,
                        Ok([action |-> "run_sql",
                            rows |-> [i \in DOMAIN rows |-> ExpenseData(rows[i])]]))
        ELSE Execute(r, sql, "Errored", <<message>>, Uncaught("OperationalError"))
AskRunSql(r, M) ==
    /\ InAsk(r)
    /\ \E message \in M :
        /\ Routed(message, "run_sql")
        /\ RunSql(r, message)
    /\ UNCHANGED <<store, now, nreq>>

\* POST /api/expenses: parse_expense(text), then add_expense begins; every
\* exception becomes a 400.
Create(r, outcome) ==
    IF ParseOk(outcome)
    THEN BeginAdd(r, <<outcome>>, parse_expense(outcome), "create", ClientError("float"))
    ELSE Fail(r, <<outcome>>, ClientError("parse_expense"))
CreateExpense(r, M) ==
    /\ reqs[r].pc = "Received" /\ reqs[r].route = "create"
    /\ \/ \E outcome \in M : Create(r, outcome)
       \/ Create(r, Raised)
    /\ UNCHANGED <<store, now, nreq>>

\* GET /api/expenses.
ListExpenses(r) ==
    /\ reqs[r].pc = "Received" /\ reqs[r].route = "list"
    /\ \E items \in get_expenses(store, Get(reqs[r].query, "start_date"),
                        Get(reqs[r].query, "end_date"), Get(reqs[r].query, "category")) :
          Respond(r, <<>>, Ok([i \in DOMAIN items |-> ExpenseData(items[i])]))
    /\ UNCHANGED <<store, now, nreq>>

Init ==
    /\ store = <<>>
    /\ now = 0
    /\ reqs = [r \in Worker |-> Idle]
    /\ nreq = 0
    /\ done = Idle

(* ------------------------------- inputs ------------------------------- *)


AugustLast == <<"2","0","2","5","-","0","8","-","3","1">>
SeptemberFirst == <<"2","0","2","5","-","0","9","-","0","1">>
NotADate == <<"y","e","s","t","e","r","d","a","y">>
FebThirty == <<"2","0","2","5","-","0","2","-","3","0">>

\* The arguments payloads the classifier is let to produce, per operation.
Pick(key, values) == {<<>>} \cup {(key :> v) : v \in values}

CoreParseArgs ==
    {[date |-> Str(SeptemberFirst), amount |-> Num(5), description |-> Str(<<"A">>),
      category |-> Str(<<"f","o","o","d">>)],
     [date |-> Str(SeptemberFirst), amount |-> Null]}
CoreCalls ==
    {Call("parse_expense", Json(a)) : a \in CoreParseArgs}
    \cup {Call("query_expenses", Json(<<>>)),
          Call("summarize_expenses", Json(<<>>)),
          Call("get_last_expense", Null),
          Call("get_most_expensive_expense", Json(<<>>)),
          Call("delete_expense", Json(<<>>)),
          Call("delete_expense", NotJson),
          Call("split_expense", Json([expense_id |-> Num(1)])),
          Call("split_expense", Json([expense_id |-> Num(2), participant |-> Str(<<"a">>)]))}
    \cup {Call("run_sql", Json(a)) :
            a \in Pick("sql", {Str(SelectAll), Str(<<" "," ","s","e","l","e","c","t"," ","*"," ","f","r","o","m"," ","e","x","p","e","n","s","e","\n">>), Str(DeleteAll),
                               Str(<<"s","e","l","e","c","t","e","d">>)})}
CoreMessages ==
    {Message(Null, "hello")} \cup {Message(c, "") : c \in CoreCalls}
CoreQueries == {<<>>, [category |-> Str(<<"F","o","o","d">>)]}

\* The next-state relation over the workers W that take requests, the
\* request texts T, the classifier messages M and the query strings Q of
\* GET /api/expenses.
NextOver(W, T, M, Q) ==
    \/ Tick
    \/ \E r \in W :
        \/ \E text \in T : Receive(r, "ask", text, <<>>)
        \/ \E text \in T : Receive(r, "create", text, <<>>)
        \/ \E query \in Q : Receive(r, "list", "", query)
        \/ ClassifyFails(r)
        \/ AskFreeText(r, M)
        \/ AskBadArguments(r, M)
        \/ AskFallback(r, M)
        \/ AskParseExpense(r, M)
        \/ AskQueryExpenses(r, M)
        \/ AskSummarizeExpenses(r, M)
        \/ AskGetLastExpense(r, M)
        \/ AskSplitExpense(r, M)
        \/ AskMostExpensive(r, M)
        \/ AskRunSql(r, M)
        \/ CreateExpense(r, M)
        \/ ListExpenses(r)
        \/ Commit(r)

Next == NextOver(Worker, {"coffee 5"}, CoreMessages, CoreQueries)
Spec == Init /\ [][Next]_vars

\* The steps in which worker r carries on with the request it has: its
\* call_openai returns or raises and the branch runs, its insert commits.
Handle(r, M) ==
    \/ ClassifyFails(r)
    \/ AskFreeText(r, M)
    \/ AskBadArguments(r, M)
    \/ AskFallback(r, M)
    \/ AskParseExpense(r, M)
    \/ AskQueryExpenses(r, M)
    \/ AskSummarizeExpenses(r, M)
    \/ AskGetLastExpense(r, M)
    \/ AskSplitExpense(r, M)
    \/ AskMostExpensive(r, M)
    \/ AskRunSql(r, M)
    \/ CreateExpense(r, M)
    \/ ListExpenses(r)
    \/ Commit(r)
\* The thread of worker w2 keeps running and its provider calls end; nothing
\* is assumed of worker w1, whose call_openai may never return.
HangMessages ==
    {Message(Null, "hello")}
    \cup {Message(Call(name, Json(<<>>)), "") : name \in Registry \cup {"delete_expense"}}
    \cup {Message(Call("split_expense", Json([expense_id |-> Num(1)])), ""),
          Message(Call("run_sql", Json([sql |-> Str(SelectAll)])), ""),
          Message(Call("run_sql", NotJson), "")}
HangNext == NextOver(Worker, {"coffee 5"}, HangMessages, {<<>>})
HangSpec == Init /\ [][HangNext]_vars /\ WF_vars(Handle("w2", HangMessages))

\* One request at a time, over the arguments of the expense service: one
\* specification each for the dates, the categories and the amounts of
\* parse_expense and for the filters of query_expenses.
Lunch == [date |-> Str(SeptemberFirst), amount |-> Num(5), description |-> Str(<<"A">>),
          category |-> Str(<<"f","o","o","d">>)]
DataMessages(ParseArgs, QueryArgs, SummaryArgs) ==
    {Message(Null, "hello")}
    \cup {Message(c, "") :
            c \in {Call("parse_expense", Json(a)) : a \in ParseArgs}
                \cup {Call("query_expenses", Json(a)) : a \in QueryArgs}
                \cup {Call("summarize_expenses", Json(a)) : a \in SummaryArgs}
                \cup {Call("get_last_expense", Null),
                      Call("get_most_expensive_expense", Json(<<>>)),
                      Call("split_expense", Json([expense_id |-> Num(1)])),
                      Call("run_sql", Json([sql |-> Str(SelectAll)])),
                      Call("delete_expense", Json(<<>>)),
                      Call("parse_expense", NotJson)}}
DataNext(ParseArgs, QueryArgs, SummaryArgs, Q) ==
    NextOver({"w1"}, {"coffee 5"}, DataMessages(ParseArgs, QueryArgs, SummaryArgs), Q)

DateParseArgs ==
    {Lunch,
     [Lunch EXCEPT !.date = Str(AugustLast)],
     [Lunch EXCEPT !.date = Str(NotADate)],
     [amount |-> Num(5), description |-> Str(<<"A">>), category |-> Str(<<"f","o","o","d">>)]}
DateSummaryArgs ==
    {<<>>, [granularity |-> Str(Daily)], [granularity |-> Str(Monthly)]}
DateNext == DataNext(DateParseArgs, {<<>>}, DateSummaryArgs, {<<>>})
DateSpec == Init /\ [][DateNext]_vars

CategoryParseArgs ==
    {Lunch,
     [Lunch EXCEPT !.category = Str(<<" ","f","O"," ","b","A","r","\t">>)],
     [Lunch EXCEPT !.category = Str(<<" ", " ">>)],
     [Lunch EXCEPT !.category = Str(<<>>)],
     [Lunch EXCEPT !.category = Null],
     [description |-> Str(<<"B">>)]}
CategoryNext == DataNext(CategoryParseArgs, {<<>>}, {<<>>}, {<<>>})
CategorySpec == Init /\ [][CategoryNext]_vars

QueryParseArgs ==
    {Lunch, [description |-> Str(<<"B">>)]}
QueryArgs ==
    {<<>>,
     [category |-> Str(<<"F","o","o","d">>)],
     [category |-> Str(<<"f","o","o","d">>)],
     [category |-> Str(<<>>)],
     [start_date |-> Str(SeptemberFirst)],
     [end_date |-> Str(AugustLast)],
     [start_date |-> Str(AugustLast), end_date |-> Str(AugustLast),
      category |-> Str(<<"F","o","o","d">>)],
     [start_date |-> Str(NotADate), end_date |-> Str(FebThirty)]}
QueryStrings ==
    {<<>>, [end_date |-> Str(AugustLast), category |-> Str(<<"F","o","o","d">>)]}
QueryNext == DataNext(QueryParseArgs, QueryArgs, {<<>>}, QueryStrings)
QuerySpec == Init /\ [][QueryNext]_vars

AmountParseArgs ==
    {Lunch,
     [Lunch EXCEPT !.amount = Num(15)],
     [description |-> Str(<<"B">>)],
     [amount |-> Null]}
AmountSummaryArgs ==
    {<<>>,
     [granularity |-> Str(Daily)],
     [granularity |-> Str(<<"y","e","a","r","l","y">>)],
     [start_date |-> Str(NotADate)],
     [start_date |-> Str(SeptemberFirst), granularity |-> Str(Weekly)]}
AmountNext == DataNext(AmountParseArgs, {<<>>}, AmountSummaryArgs, {<<>>})
AmountSpec == Init /\ [][AmountNext]_vars

SummaryParseArgs == {Lunch, [Lunch EXCEPT !.amount = Num(15)]}
SummaryArgs ==
    {<<>>,
     [granularity |-> Str(Daily)],
     [granularity |-> Str(Weekly)],
     [granularity |-> Str(Monthly)],
     [granularity |-> Str(<<"y","e","a","r","l","y">>)],
     [granularity |-> Null, start_date |-> Str(AugustLast)],
     [start_date |-> Str(SeptemberFirst), granularity |-> Str(Daily)],
     [end_date |-> Str(AugustLast), granularity |-> Str(Monthly)],
     [start_date |-> Str(NotADate), end_date |-> Str(SeptemberFirst),
      granularity |-> Str(Weekly)]}
SummaryNext == DataNext(SummaryParseArgs, {<<>>}, SummaryArgs, {<<>>})
SummarySpec == Init /\ [][SummaryNext]_vars

\* The application started on a database (DATABASE_URL) that already holds
\* rows, some of them with participants; init_db creates no table that
\* exists.  Requests are then handled one at a time.
Dinner ==
    [Row(1, 0, 15, Str(<<"F","o","o","d">>), Str(<<"D">>), "dinner 15")
        EXCEPT !.participants = <<"a", "b", "c">>]
Taxi ==
    [Row(2, 0, 5, Null, Str(<<"T">>), "taxi 5") EXCEPT !.participants = <<"a">>]
Tea == Row(2, 0, 5, Null, Str(<<"E">>), "tea 5")
SeededStores == {<<Dinner, Taxi>>, <<Dinner, Tea>>}
SeededInit ==
    /\ store \in SeededStores
    /\ now = 0
    /\ reqs = [r \in Worker |-> Idle]
    /\ nreq = 0
    /\ done = Idle
SplitArgs ==
    {[expense_id |-> Num(i)] : i \in 1..3}
    \cup {[expense_id |-> Num(1), participant |-> Str(p)] : p \in {<<"a">>, <<"z">>, <<>>}}
    \cup {[expense_id |-> Num(2), participant |-> Str(<<"z">>)]}
SplitMessages ==
    DataMessages({Lunch}, {<<>>}, {<<>>})
    \cup {Message(Call("split_expense", Json(a)), "") : a \in SplitArgs}
SplitNext == NextOver({"w1"}, {"coffee 5"}, SplitMessages, {<<>>})
SplitSpec == SeededInit /\ [][SplitNext]_vars

\* The application started on an empty database, with classifier arguments
\* that name participants.  Requests are handled one at a time.
Shared ==
    [amount |-> Num(15), description |-> Str(<<"P">>), participants |-> <<"a", "b", "c">>]
ParticipantsMessages ==
    DataMessages({Lunch, Shared}, {<<>>}, {<<>>})
    \cup {Message(Call("split_expense", Json(a)), "") :
            a \in {[expense_id |-> Num(2)],
                   [expense_id |-> Num(1), participant |-> Str(<<"a">>)]}}
ParticipantsNext == NextOver({"w1"}, {"coffee 5"}, ParticipantsMessages, {<<>>})
ParticipantsSpec == Init /\ [][ParticipantsNext]_vars

(* ------------------------------- claims ------------------------------- *)

\* The step in which worker r answers its request, which done' then holds.
Finished(r) == reqs[r].pc # "Idle" /\ reqs'[r].pc = "Idle"

\* Request d got an assistant message from its first call_openai.
Answered(d) == d.messages # <<>> /\ d.messages[1] # Raised
\* The classifier of ask request d selected the operation called name and
\* gave it arguments ask can decode.
Chose(d, name) ==
    /\ d.route = "ask" /\ Answered(d)
    /\ d.messages[1].function_call.t = "call"
    /\ d.messages[1].function_call.name = name
    /\ d.messages[1].function_call.arguments.t # "text"
\* The response {response: content}.
FreeText(d) ==
    d.pc = "Responded" /\ d.response.status = 200 /\ DOMAIN d.response.body = {"response"}

\* The statement a run_sql request carries, "" when it carries none.
StatementOf(d) ==
    LET a == d.messages[1].function_call.arguments
    IN  IF a.t = "json" /\ "sql" \in DOMAIN a.obj THEN a.obj.sql.s ELSE <<>>
BeginsWithSelect(s) ==
    /\ Len(s) >= 6
    /\ \A i \in 1..6 : s[i] \in {Select[i], <<"S","E","L","E","C","T">>[i]}

\* C1: a run_sql request whose trimmed statement does not begin with SELECT
\* (in any letter case) is answered 400, and the step that answers it
\* executes no statement and leaves the store as it was.
C1_NonSelectRejected ==
    [][\A r \in Worker :
        (Finished(r) /\ Chose(done', "run_sql")
            /\ ~BeginsWithSelect(strip(StatementOf(done'))))
        => /\ done'.pc = "Errored"
           /\ done'.response.status = 400
           /\ done'.executed = <<>>
           /\ store' = store]_vars

C1_Witness ==
    /\ Chose(done, "run_sql")
    /\ StatementOf(done) = DeleteAll
    /\ done.pc = "Errored" /\ done.response.status = 400
    /\ done.executed = <<>>
    /\ store # <<>>

\* C2 as stated: the free-text response is produced only when no operation
\* was selected; a selected operation with an unknown name or with
\* arguments that are not JSON ends the request in an error.
C2_FreeTextOnlyUnselected ==
    (done.route = "ask" /\ Answered(done)) =>
        LET call == done.messages[1].function_call
        IN  /\ FreeText(done) => call.t # "call"
            /\ (call.t = "call"
                    /\ (call.name \notin Registry \/ call.arguments.t = "text"))
                => done.pc = "Errored"

\* C2 amended: the free-text response is produced exactly when no operation
\* was selected or the selected name is not in the registry and its
\* arguments decode; it carries the message content; a selected operation
\* whose arguments are not JSON ends the request in an error.
C2_FreeTextOrUnknownName ==
    (done.route = "ask" /\ Answered(done)) =>
        LET call == done.messages[1].function_call
        IN  /\ FreeText(done) <=>
                \/ call.t # "call"
                \/ call.t = "call" /\ call.name \notin Registry /\ call.arguments.t # "text"
            /\ FreeText(done) => done.response.body.response = done.messages[1].content
            /\ (call.t = "call" /\ call.arguments.t = "text") => done.pc = "Errored"

C2_Witness ==
    /\ done.route = "ask" /\ Answered(done)
    /\ done.messages[1].function_call.t = "call"
    /\ done.messages[1].function_call.name \notin Registry
    /\ FreeText(done)

\* C3: every ask request that ends Errored carries a 400-class response;
\* no failure leaves the router uncaught.
C3_FailuresAreClientErrors ==
    (done.route = "ask" /\ done.pc = "Errored") => done.response.status \in 400..499

\* The second classification of a get_last_expense request gave an expense
\* that add_expense accepts.
Reinterpreted(outcome) ==
    /\ outcome # Raised
    /\ outcome.function_call.t = "call"
    /\ outcome.function_call.name = "parse_expense"
    /\ outcome.function_call.arguments.t = "json"
    /\ LET obj == outcome.function_call.arguments.obj
       IN  "amount" \in DOMAIN obj => FloatOk(obj.amount)

\* C4: a get_last_expense request whose text reinterprets as an expense
\* stores exactly one record and answers it tagged parse_expense; otherwise
\* it stores nothing and answers the last stored expense (a record of
\* maximal timestamp, or the empty mapping) tagged get_last_expense.
C4_LastExpenseFallback ==
    [][\A r \in Worker :
        (Finished(r) /\ Chose(done', "get_last_expense")) =>
            LET body == done'.response.body
            IN  /\ done'.pc = "Responded"
                /\ IF Reinterpreted(done'.messages[2])
                   THEN /\ body.action = "parse_expense"
                        /\ done'.added = 1
                        /\ Len(store') = Len(store) + 1
                        /\ body.expense.id = store'[Len(store')].id
                        /\ store'[Len(store')].raw_nl = done'.text
                   ELSE /\ body.action = "get_last_expense"
                        /\ done'.added = 0
                        /\ store' = store
                        /\ store = <<>> => body.expense = <<>>
                        /\ store # <<>> =>
                            \E row \in Range(store) :
                                /\ row.id = body.expense.id
                                /\ \A z \in Range(store) : z.timestamp <= row.timestamp]_vars

C4_Witness ==
    /\ Chose(done, "get_last_expense")
    /\ done.pc = "Responded"
    /\ done.response.body.action = "parse_expense"
    /\ done.added = 1
    /\ Len(store) >= 2

\* C5: an ask request whose message selects no operation is answered with
\* the message content in the step the message arrives, with no record
\* added, no statement executed and the store as it was.
C5_NoOperationSkipsDispatch ==
    [][\A r \in Worker :
        (Finished(r) /\ done'.route = "ask" /\ Answered(done')
            /\ done'.messages[1].function_call.t # "call")
        => /\ done'.pc = "Responded"
           /\ done'.response = Ok([response |-> done'.messages[1].content])
           /\ done'.added = 0
           /\ store' = store
           /\ done'.executed = <<>>]_vars

C5_Witness ==
    /\ done.route = "ask" /\ Answered(done)
    /\ done.messages[1].function_call.t # "call"
    /\ FreeText(done)
    /\ store # <<>>

\* The routes that only read the store.
ReadOnly(d) ==
    \/ d.route = "list"
    \/ \E name \in {"query_expenses", "summarize_expenses", "split_expense",
                    "get_most_expensive_expense", "run_sql"} : Chose(d, name)

\* C6: a step changes the store only by appending one record, whose id is
\* the next integer and differs from every id in the store, in the commit
\* of an add; every earlier record stays, unchanged; the read-only routes
\* leave the store as it was.
C6_StoreOnlyGrowsByAdd ==
    [][/\ Len(store') \in {Len(store), Len(store) + 1}
       /\ SubSeq(store', 1, Len(store)) = store
       /\ store' # store =>
            /\ store'[Len(store')].id = Len(store')
            /\ \A i \in DOMAIN store : store[i].id # store'[Len(store')].id
            /\ \E r \in Worker : reqs[r].pc = "Adding" /\ Finished(r) /\ done'.added = 1
       /\ \A r \in Worker : (Finished(r) /\ ReadOnly(done')) => store' = store]_vars

C6_Witness ==
    /\ Len(store) >= 2
    /\ \A i \in DOMAIN store : store[i].id = i
    /\ ReadOnly(done) /\ done.pc = "Responded"

\* The mapping add_expense was given by finished request d: the arguments of
\* the last assistant message of the request.
Supplied(d) == d.messages[Len(d.messages)].function_call.arguments.obj
\* Finished request d added a record.
Added(d) == d.pc = "Responded" /\ d.added = 1
\* The record in the response of a request that added one.
AddedExpense(d) ==
    IF d.route = "create" THEN d.response.body ELSE d.response.body.expense
\* Key k of mapping f carries a non-empty string.
Given(f, k) == k \in DOMAIN f /\ f[k].t = "str" /\ f[k].s # <<>>

\* C7: add_expense stamps the record with the clock value it reads, whatever
\* date the arguments carry, and the record is stored with that stamp; so
\* while the clock is on its first day, whatever dates were supplied, the
\* stored records fall into at most one daily and one monthly bucket.
C7_StampedWithClock ==
    /\ [][\A r \in Worker :
            /\ (reqs[r].pc = "Received" /\ reqs'[r].pc = "Adding")
                   => reqs'[r].expense.timestamp = now
            /\ (reqs[r].pc = "Adding" /\ Finished(r))
                   => store'[Len(store')].timestamp = reqs[r].expense.timestamp]_vars
    /\ [](DateOf(now) = DateOf(0) =>
            /\ Len(summarize_expenses(store, Null, Null, Str(Daily)).breakdown) <= 1
            /\ Len(summarize_expenses(store, Null, Null, Str(Monthly)).breakdown) <= 1)

C7_Witness ==
    /\ DateOf(now) = DateOf(0)
    /\ Len(store) >= 2
    /\ Added(done)
    /\ Given(Supplied(done), "date")
    /\ IsoValid(Supplied(done).date.s)
    /\ IsoDate(Supplied(done).date.s) # DateOf(now)
    /\ AddedExpense(done).timestamp.date = DateOf(now)
    /\ Len(summarize_expenses(store, Null, Null, Str(Daily)).breakdown) = 1

\* C8: a stored category is never the empty string, and the category of a
\* record just added is either absent or the trimmed, title-cased form of
\* the category its arguments carried.
C8_CategoryAbsentOrCanonical ==
    /\ \A i \in DOMAIN store : store[i].category # Str(<<>>)
    /\ Added(done) =>
          LET c == Get(Supplied(done), "category")
              stored == AddedExpense(done).category
          IN  \/ stored = Null
              \/ c.t = "str" /\ stored = Str(title(strip(c.s)))

\* The filters of a finished query: the arguments of query_expenses, the
\* query string of GET /api/expenses.
FiltersOf(d) == IF d.route = "list" THEN d.query ELSE Args(d.messages[1])
ResultOf(d) == IF d.route = "list" THEN d.response.body ELSE d.response.body.expenses
IsQuery(d) ==
    /\ d.pc = "Responded"
    /\ d.route = "list" \/ Chose(d, "query_expenses")
DateNumber(dt) == dt.y * 10000 + dt.m * 100 + dt.d
\* Row matches the filters f: on or after the start date, on or before the
\* end date (before the end date plus one day), of exactly the category;
\* a filter that is not given, or a date that is no ISO date, filters nothing.
Matches(row, f) ==
    /\ (Given(f, "start_date") /\ IsoValid(f.start_date.s))
          => DateNumber(DateOf(row.timestamp)) >= DateNumber(IsoDate(f.start_date.s))
    /\ (Given(f, "end_date") /\ IsoValid(f.end_date.s))
          => DateNumber(DateOf(row.timestamp)) <= DateNumber(IsoDate(f.end_date.s))
    /\ Given(f, "category") => row.category = f.category

\* C9: a query returns exactly the stored records that match its filters,
\* each once and as stored, in ascending order of timestamp.
C9_QueryReturnsMatches ==
    [][\A r \in Worker :
        (Finished(r) /\ IsQuery(done')) =>
            LET f == FiltersOf(done')
                result == ResultOf(done')
            IN  /\ \A i \in DOMAIN result :
                      /\ result[i].id \in DOMAIN store
                      /\ result[i] = ExpenseData(store[result[i].id])
                      /\ Matches(store[result[i].id], f)
                /\ \A k \in DOMAIN store :
                      Matches(store[k], f) => \E i \in DOMAIN result : result[i].id = store[k].id
                /\ \A i, j \in DOMAIN result :
                      /\ i # j => result[i].id # result[j].id
                      /\ i < j => store[result[i].id].timestamp
                                    <= store[result[j].id].timestamp]_vars

C9_Witness ==
    /\ IsQuery(done)
    /\ Given(FiltersOf(done), "end_date")
    /\ Given(FiltersOf(done), "category")
    /\ Len(ResultOf(done)) >= 1
    /\ Len(ResultOf(done)) < Len(store)
    /\ \E i \in DOMAIN store :
          /\ store[i].category # FiltersOf(done).category
          /\ DateOf(store[i].timestamp) = IsoDate(FiltersOf(done).end_date.s)
          /\ \A k \in DOMAIN ResultOf(done) : ResultOf(done)[k].id # store[i].id

\* The sum of the amounts of the first n stored records.
RECURSIVE AmountsUpTo(_, _)
AmountsUpTo(rows, n) ==
    IF n = 0 THEN 0 ELSE AmountsUpTo(rows, n - 1) + rows[n].amount

\* C10: summarize_expenses without date filters reports the sum of the
\* amounts of all stored records, 0 and an empty breakdown when there are
\* none; a record added without an amount is stored with amount 0.
C10_TotalIsSum ==
    [][\A r \in Worker :
        /\ (/\ Finished(r)
            /\ done'.pc = "Responded"
            /\ Chose(done', "summarize_expenses")
            /\ ~Given(Args(done'.messages[1]), "start_date")
            /\ ~Given(Args(done'.messages[1]), "end_date"))
           => LET summary == done'.response.body.summary
              IN  /\ summary.total = AmountsUpTo(store, Len(store))
                  /\ store = <<>> => summary.total = 0 /\ summary.breakdown = <<>>
        /\ (Finished(r) /\ Added(done'))
           => store'[Len(store')].amount =
                 IF "amount" \in DOMAIN Supplied(done')
                 THEN Supplied(done').amount.n ELSE 0]_vars

C10_Witness ==
    /\ done.pc = "Responded"
    /\ Chose(done, "summarize_expenses")
    /\ Args(done.messages[1]) = <<>>
    /\ Len(store) = 2
    /\ \E i, j \in DOMAIN store : store[i].amount = 0 /\ store[j].amount = 15
    /\ done.response.body.summary.total = 15

\* The sum of the totals of the first n entries of breakdown b.
RECURSIVE TotalsUpTo(_, _)
TotalsUpTo(b, n) ==
    IF n = 0 THEN 0 ELSE TotalsUpTo(b, n - 1) + b[n].total
\* The stored rows that match the date filters f, and those of them in
\* period k of granularity g.
MatchingRows(f) == SelectSeq(store, LAMBDA row : Matches(row, f))
RowsInPeriod(f, g, k) ==
    SelectSeq(store, LAMBDA row : Matches(row, f) /\ strftime(g, row.timestamp) = k)
IsSummary(d) == d.pc = "Responded" /\ Chose(d, "summarize_expenses")
Periodic(f) ==
    "granularity" \in DOMAIN f /\ f.granularity \in {Str(Daily), Str(Weekly), Str(Monthly)}

\* C11: for granularity daily, weekly or monthly the breakdown has one
\* bucket per distinct period key of the records matching the date filters,
\* in ascending order of key; every matching record is in exactly one
\* bucket, each bucket totals the amounts of its records and the bucket
\* totals sum to the overall total.  For any other or no granularity the
\* breakdown is empty.
C11_BreakdownPartitions ==
    [][\A r \in Worker :
        (Finished(r) /\ IsSummary(done')) =>
            LET f == Args(done'.messages[1])
                g == GranularityName(Get(f, "granularity"))
                summary == done'.response.body.summary
                b == summary.breakdown
                rows == MatchingRows(f)
            IN  IF Periodic(f)
                THEN /\ \A i, j \in DOMAIN b : i < j => KeyLess(b[i].period, b[j].period)
                     /\ \A n \in DOMAIN rows :
                           Cardinality({i \in DOMAIN b :
                               b[i].period = strftime(g, rows[n].timestamp)}) = 1
                     /\ \A i \in DOMAIN b :
                           /\ RowsInPeriod(f, g, b[i].period) # <<>>
                           /\ b[i].total = AmountsUpTo(RowsInPeriod(f, g, b[i].period),
                                                       Len(RowsInPeriod(f, g, b[i].period)))
                     /\ TotalsUpTo(b, Len(b)) = summary.total
                     /\ summary.total = AmountsUpTo(rows, Len(rows))
                ELSE b = <<>>]_vars

C11_Witness ==
    /\ IsSummary(done)
    /\ Periodic(Args(done.messages[1]))
    /\ Len(done.response.body.summary.breakdown) = 2
    /\ done.response.body.summary.breakdown[1].total = 5
    /\ done.response.body.summary.breakdown[2].total = 15
    /\ done.response.body.summary.total = 20

\* Finished request d asked for split_expense on the id of a stored record.
IsSplit(d) == Chose(d, "split_expense")
SplitTarget(d) ==
    {row \in Range(store) :
        LET id == Get(Args(d.messages[1]), "expense_id")
        IN  id.t = "num" /\ id.n = row.id}
AtLeastOne(n) == IF n >= 1 THEN n ELSE 1

\* C12: split_expense on an existing expense with amount A and participants
\* P is answered with share A / max(1, |P|), whatever participant the call
\* names; without participants the share is A; the participant returned is
\* the name supplied, "me" when none is.
C12_ShareIsAmountOverParticipants ==
    [][\A r \in Worker :
        (Finished(r) /\ IsSplit(done')) =>
            \A exp \in SplitTarget(done') :
                LET args == Args(done'.messages[1])
                    split == done'.response.body.split
                IN  /\ done'.pc = "Responded"
                    /\ split.share.den >= 1
                    /\ split.share.num * AtLeastOne(Len(exp.participants))
                          = exp.amount * split.share.den
                    /\ exp.participants = <<>> => split.share.num = exp.amount * split.share.den
                    /\ split.participant =
                          IF Given(args, "participant") THEN args.participant
                          ELSE Str(<<"m","e">>)
                    /\ split.expense_id = exp.id]_vars

C12_Witness ==
    /\ done.pc = "Responded" /\ IsSplit(done)
    /\ Args(done.messages[1]) = [expense_id |-> Num(1), participant |-> Str(<<"z">>)]
    /\ Dinner \in SplitTarget(done)
    /\ done.response.body.split.share = [num |-> 15, den |-> 3]
    /\ done.response.body.split.participant = Str(<<"z">>)

\* Mapping e is the rendering of stored row: the same fields, the timestamp
\* as the localized text.
Renders(e, row) ==
    /\ DOMAIN e = DOMAIN row
    /\ e.id = row.id /\ e.amount = row.amount /\ e.category = row.category
    /\ e.description = row.description /\ e.raw_nl = row.raw_nl
    /\ e.participants = row.participants
    /\ e.timestamp = format_timestamp(row.timestamp)

\* C13: a get_most_expensive_expense request is answered, tagged
\* get_most_expensive_expense, with a stored record whose amount is at least
\* the amount of every stored record, and with the empty mapping exactly
\* when the store is empty.
C13_MostExpensiveIsMaximum ==
    [][\A r \in Worker :
        (Finished(r) /\ Chose(done', "get_most_expensive_expense")) =>
            LET body == done'.response.body
            IN  /\ done'.pc = "Responded"
                /\ done'.response.status = 200
                /\ body.action = "get_most_expensive_expense"
                /\ body.expense = <<>> <=> store = <<>>
                /\ store # <<>> =>
                      \E i \in DOMAIN store :
                          /\ Renders(body.expense, store[i])
                          /\ \A k \in DOMAIN store : store[k].amount <= store[i].amount]_vars

C13_Witness ==
    /\ done.pc = "Responded" /\ Chose(done, "get_most_expensive_expense")
    /\ Len(store) = 2
    /\ store[1].amount = 15 /\ store[2].amount = 5
    /\ Renders(done.response.body.expense, store[1])

\* The expenses in the response of finished request d, whichever route and
\* branch answered it.
ReturnedExpenses(d) ==
    IF d.pc # "Responded" THEN {}
    ELSE IF d.route = "create" THEN {d.response.body}
    ELSE IF d.route = "list" THEN Range(d.response.body)
    ELSE IF "expense" \in DOMAIN d.response.body THEN {d.response.body.expense}
    ELSE IF "expenses" \in DOMAIN d.response.body THEN Range(d.response.body.expenses)
    ELSE IF "rows" \in DOMAIN d.response.body THEN Range(d.response.body.rows)
    ELSE {}
\* The branches of ask that build their response from a plain mapping of the
\* service (get_last_expense, get_most_expensive_expense) and from plain
\* result rows (run_sql); the others build it from Expense records.
FromMapping(d) ==
    /\ d.pc = "Responded" /\ d.route = "ask" /\ "action" \in DOMAIN d.response.body
    /\ d.response.body.action \in {"get_last_expense", "get_most_expensive_expense", "run_sql"}

C15_HangBlocksOnlyItself ==
    (reqs["w2"].pc # "Idle") ~> (reqs["w2"].pc = "Idle")

C15_Witness ==
    /\ InAsk("w1")
    /\ reqs["w2"].pc = "Adding"
    /\ done.pc \in {"Responded", "Errored"}
    /\ nreq = MaxRequests

\* C16: the record get_last_expense returns, the one with the greatest
\* timestamp, is the one inserted last: in every reachable state the
\* timestamps of the stored records are non-decreasing in id order, also
\* when add_expense requests overlap.
C16_TimestampsFollowInsertion ==
    \A i, j \in DOMAIN store :
        store[i].id < store[j].id => store[i].timestamp <= store[j].timestamp

\* The classifier message of finished POST /api/expenses request d selects
\* parse_expense with arguments that are a JSON object.
SelectsParse(d) ==
    /\ Answered(d)
    /\ d.messages[1].function_call.t = "call"
    /\ d.messages[1].function_call.name = "parse_expense"
    /\ d.messages[1].function_call.arguments.t = "json"
\* Arguments add_expense can use: the amount absent or a number, the
\* category absent, null or text.
Usable(a) ==
    /\ "amount" \in DOMAIN a => a.amount.t = "num"
    /\ "category" \in DOMAIN a => a.category.t \in {"str", "null"}

\* C17: a POST /api/expenses request whose classifier message selects
\* parse_expense with JSON arguments add_expense can use stores exactly one
\* record, with the request text as raw_nl, and returns it; every other
\* request to the route (the classifier fails, answers in free text, selects
\* another operation, gives arguments that are no JSON or that add_expense
\* cannot use) ends 400 with the store as it was.
C17_CreateStoresOneOrFails ==
    [][\A r \in Worker :
        (Finished(r) /\ done'.route = "create") =>
            IF SelectsParse(done') /\ Usable(Supplied(done'))
            THEN /\ done'.pc = "Responded" /\ done'.response.status = 200
                 /\ Len(store') = Len(store) + 1
                 /\ SubSeq(store', 1, Len(store)) = store
                 /\ store'[Len(store')].raw_nl = done'.text
                 /\ Renders(done'.response.body, store'[Len(store')])
                 /\ done'.added = 1
            ELSE /\ done'.pc = "Errored" /\ done'.response.status = 400
                 /\ store' = store
                 /\ done'.added = 0]_vars

C17_Witness ==
    /\ done.route = "create" /\ done.pc = "Responded"
    /\ SelectsParse(done)
    /\ Len(store) = 1
    /\ store[1].raw_nl = done.text
    /\ Renders(done.response.body, store[1])

\* C18: no stored record has participants, whatever the arguments of its
\* add carried, and so the share of every split that was answered is the
\* full amount of its record (a division by 1).
C18_NoParticipantsStored ==
    /\ \A i \in DOMAIN store : store[i].participants = <<>>
    /\ (done.pc = "Responded" /\ IsSplit(done)) =>
          \E i \in DOMAIN store :
              /\ store[i].id = done.response.body.split.expense_id
              /\ done.response.body.split.share = [num |-> store[i].amount, den |-> 1]

C18_Witness ==
    /\ done.pc = "Responded" /\ IsSplit(done)
    /\ \E i \in DOMAIN store :
          /\ store[i].description = Str(<<"P">>)
          /\ store[i].participants = <<>>
          /\ store[i].id = done.response.body.split.expense_id
          /\ done.response.body.split.share = [num |-> 15, den |-> 1]

====
